---- MODULE Spec2Model ----
(***************************************************************************)
(* CineBookAPI: owner registration, login, logout and the session guard,   *)
(* running as concurrent Flask request handlers over the module-level      *)
(* gateway  db = MyDB()  (src/main/database/__init__.py:60).               *)
(*                                                                         *)
(* The committed store is the three tables owners, owner_details and       *)
(* owner_sessions.  A SQLAlchemy Session object holds the writes of its    *)
(* open transaction (added rows, deleted session ids) until commit()       *)
(* publishes them or close() discards them.                                *)
(***************************************************************************)
EXTENDS Integers, Sequences, FiniteSets, TLC

\* ------------------------------------------------------------------ bounds
MaxRequests == 3    \* requests accepted over a run (caps the uuid counter)

\* Two request-handler threads: the smallest server in which requests overlap.
Workers == {1, 2}

\* ------------------------------------------------- field values and validators
\* A Python str that may have been through hashlib.sha256(..).hexdigest():
\* depth 0 is the plaintext s, depth k the k-fold digest of s.
Str(s) == [depth |-> 0, s |-> s]

HexDigestLen == 64

StrLen(v) == IF v.depth = 0 THEN Len(v.s) ELSE HexDigestLen

\* hashlib.sha256(password_bytes).hexdigest(): deterministic, injective here.
sha256_hexdigest(v) == [v EXCEPT !.depth = @ + 1]

PasswordMinLen == 8
PasswordMaxLen == 16

\* validate.Length(min=8, max=16)
PasswordLengthOK(v) == PasswordMinLen <= StrLen(v) /\ StrLen(v) <= PasswordMaxLen

\* A phone number n is held as <<n \div 10^5, n % 10^5>> (two 5-digit halves).
PhoneHalf == 100000
PhoneMinHi == 10000      \* 1000000000 \div 10^5
PhoneMaxHi == 99999      \* 9999999999 \div 10^5

\* validate.Range(min=1000000000, max=9999999999)
PhoneRangeOK(p) ==
    /\ p[1] >= PhoneMinHi /\ p[1] <= PhoneMaxHi
    /\ p[2] >= 0 /\ p[2] < PhoneHalf

\* fields.Email(): one "@" with a non-empty user part and a dotted domain.
Ats(e) == {i \in 1..Len(e) : e[i] = "@"}
EmailOK(e) ==
    /\ Cardinality(Ats(e)) = 1
    /\ \E i \in Ats(e) :
          /\ i > 1
          /\ \E j \in (i + 2)..(Len(e) - 1) : e[j] = "."

\* ------------------------------------------------------------- test universe
EmailA == <<"a", "@", "x", ".", "c", "o", "m">>
EmailB == <<"b", "@", "x", ".", "c", "o", "m">>
EmailC == <<"c", "@", "x", ".", "c", "o", "m">>
EmailBad == <<"a", ".", "x">>
PhoneA == <<98765, 43210>>
PhoneB == <<98765, 43211>>
PhoneC == <<98765, 43212>>
PhoneShort == <<0, 12345>>
PwdA == Str("password1")
PwdB == Str("password2")
PwdShort == Str("short")

\* Rows the store may hold when the application starts.  The program itself
\* stores sha256 digests in owners.password, so the seed rows do too.
SeedOwners ==
    { [id |-> "uuid-a", email |-> EmailA, phone |-> PhoneA,
       password |-> sha256_hexdigest(PwdA)],
      [id |-> "uuid-b", email |-> EmailB, phone |-> PhoneB,
       password |-> sha256_hexdigest(PwdB)] }

SeedDetailOf(o) == [id |-> o.id, owner_id |-> o.id]

\* A JSON object: a function from the keys present to their values.
Obj(keys, full) == [k \in keys |-> full[k]]

LoginPayloads ==
    { Obj(ks, [email |-> e, phone |-> p, password |-> w]) :
        ks \in SUBSET {"email", "phone", "password"},
        e \in {EmailA}, p \in {PhoneA}, w \in {PwdA, PwdB} }
    \cup { [email |-> EmailBad, password |-> PwdA],
           [phone |-> PhoneShort, password |-> PwdA],
           [email |-> EmailA, password |-> PwdShort] }

ValidDetail == [name |-> "Ann", age |-> 26, gender |-> "female", address |-> "valid"]
MinorDetail == [name |-> "Ann", age |-> 12, gender |-> "female", address |-> "valid"]

RegisterOwner(e, p) == [email |-> e, phone |-> p, password |-> PwdA]

RegisterPayloads ==
    { [owner |-> RegisterOwner(EmailC, PhoneC), owner_detail |-> ValidDetail],
      [owner |-> RegisterOwner(EmailC, PhoneC), owner_detail |-> MinorDetail],
      [owner |-> RegisterOwner(EmailA, PhoneC), owner_detail |-> ValidDetail],
      [owner |-> RegisterOwner(EmailC, PhoneA), owner_detail |-> ValidDetail],
      [owner |-> Obj({"email", "phone"}, RegisterOwner(EmailC, PhoneC)),
       owner_detail |-> ValidDetail] }

BogusToken == 99    \* a header value that was never issued as a session id

\* ------------------------------------------------------------ OwnerLoginSchema
\* Field-level errors of OwnerLoginSchema: email, phone optional, password
\* required, each checked on the raw (plaintext) value.
LoginFieldErrors(data) ==
    {k \in {"email"} : k \in DOMAIN data /\ ~EmailOK(data[k])}
    \cup {k \in {"phone"} : k \in DOMAIN data /\ ~PhoneRangeOK(data[k])}
    \cup {k \in {"password"} :
            k \notin DOMAIN data \/ ~PasswordLengthOK(data[k])}

\* Variant of the schema-level validator that accepts every mapping.
validate_at_least_one_field_accepts_all(data) == {}

\* @validates_schema validate_at_least_one_field
validate_at_least_one_field(data) ==
    IF \E field \in {"email", "phone"} : field \in DOMAIN data
    THEN {} ELSE {"_schema"}

\* @post_load hash_password
hash_password(data) ==
    IF "password" \in DOMAIN data
    THEN [data EXCEPT !["password"] = sha256_hexdigest(@)]
    ELSE data

\* OwnerLoginSchema().load(data): the errors of a ValidationError, or the
\* loaded mapping.  The schema-level validator is skipped when a field failed
\* (marshmallow's skip_on_field_errors default); post_load runs on success.
OwnerLoginSchema_load(data) ==
    LET ferr == LoginFieldErrors(data)
        errs == IF ferr # {} THEN ferr ELSE validate_at_least_one_field(data)
    IN  [errors |-> errs,
         value |-> IF errs = {} THEN hash_password(data) ELSE data]

\* Variant of the owner lookup that matches on email and phone only.
OwnerFilterBy_without_password(rows, filter) ==
    {o \in rows : \A k \in DOMAIN filter \ {"password"} : o[k] = filter[k]}

\* session.query(OwnerModel).filter_by(**serialized_data): equality on every
\* key of the loaded mapping.
OwnerFilterBy(rows, filter) ==
    {o \in rows : \A k \in DOMAIN filter : o[k] = filter[k]}

\* ---------------------------------------------------------------- the state
VARIABLES
    owners,          \* committed rows of table owners
    owner_details,   \* committed rows of table owner_details
    owner_sessions,  \* committed rows of table owner_sessions
    db_session,      \* MyDB._db_session of the shared gateway: 0 is None
    sess_objs,       \* the Session objects made by sessionmaker, by identity
    pc,              \* where each worker's request handler stands
    ctx,             \* which with-block of db.session() the worker runs
    req,             \* each worker's request and handler locals
    resp,            \* each worker's response: status and body
    issued,          \* session ids answered by logins, in order of answer
    logged_out,      \* tokens for which a logout has answered 200
    next_uuid,       \* the next session id the store generates
    requests,        \* requests accepted so far
    config,          \* app.config["DATABASE_URI"], read once at import
    uri,             \* MyDB._uri of the shared gateway
    engine,          \* MyDB._engine of the shared gateway
    app_exc          \* what the last db.init_app(app) raised

vars == <<owners, owner_details, owner_sessions, db_session, sess_objs, pc, ctx,
          req, resp, issued, logged_out, next_uuid, requests,
          config, uri, engine, app_exc>>

store == <<owners, owner_details, owner_sessions>>

gateway == <<config, uri, engine, app_exc>>

\* Values of the DATABASE_URI setting: unset in the environment (None), a URL
\* create_engine accepts, and a string it cannot parse.
DatabaseURI == "postgresql://cinebook"
BadURI == "not a url"
ConfigValues == {"None", DatabaseURI, BadURI}

\* The gateway of a served application: create_app() has run db.init_app(app)
\* with a usable DATABASE_URI.
Initialized ==
    /\ config = DatabaseURI /\ uri = DatabaseURI
    /\ engine = "Engine" /\ app_exc = "none"

\* One more identity than can be referenced at once (each worker's local
\* `session` and the gateway's field), so a fresh one always exists.
ObjIds == 1..(Cardinality(Workers) + 1)

NoObj == [state |-> "none", opener |-> 0, closers |-> {}, added |-> {}, deleted |-> {}]

\* after_logout notes, when a guarded request arrives, whether a logout with the
\* same token has already answered 200; queried notes that the handler has sent
\* a query to the store; errors holds the keys of a ValidationError's messages;
\* raw is the caller's input mapping as it is after a schema load; logged is
\* the headers part of the record the logger wrote for the request; steps
\* lists the statements of register_service's block that the run has passed.
NoReq == [kind |-> "none", data |-> <<>>, session |-> 0, owner |-> {},
          sess |-> {}, new_id |-> 0, exc |-> "none", after_logout |-> FALSE,
          queried |-> FALSE, errors |-> {}, raw |-> <<>>, logged |-> <<>>,
          steps |-> <<>>]

\* body is the JSON object of a login answer; the {"message": ...} bodies of
\* the other answers are left out.
NoResp == [status |-> 0, session_id |-> 0, body |-> <<>>]

Init ==
    /\ owners = SeedOwners
    /\ owner_details = {SeedDetailOf(o) : o \in owners}
    /\ owner_sessions = {}
    /\ db_session = 0
    /\ sess_objs = [o \in ObjIds |-> NoObj]
    /\ pc = [w \in Workers |-> "idle"]
    /\ ctx = [w \in Workers |-> "none"]
    /\ req = [w \in Workers |-> NoReq]
    /\ resp = [w \in Workers |-> NoResp]
    /\ issued = <<>>
    /\ logged_out = {}
    /\ next_uuid = 1
    /\ requests = 0
    /\ Initialized

\* ------------------------------------------------------------- the gateway
\* The attributes class MyDB defines; the module-level db is an instance.
MyDB_attrs == {"__init__", "init_app", "_create_session", "session"}

\* A Session object is alive while the gateway's field or a handler's local
\* `session` refers to it; the identity of a dead one is reused.
Referenced(o, fld, rq) == fld = o \/ \E w \in Workers : rq[w].session = o
FreshObj == CHOOSE o \in ObjIds : ~Referenced(o, db_session, req)
Collect(objs, fld, rq) ==
    [o \in ObjIds |-> IF Referenced(o, fld, rq) THEN objs[o] ELSE NoObj]

\* What a query through Session object o sees of owner_sessions: the committed
\* rows, less the rows its transaction deleted, plus the rows it added.
SessView(o) ==
    {r \in owner_sessions : r.session_id \notin sess_objs[o].deleted}
    \cup sess_objs[o].added

\* Session.commit(): publish the transaction's writes.
Committed(o) == SessView(o)

\* Session.close(): end the transaction, discarding what was not committed.
Closed(obj, w) ==
    [obj EXCEPT !.state = "closed", !.closers = @ \cup {w},
                !.added = {}, !.deleted = {}]

\* MyDB._create_session: sessionmaker(bind=self._engine)()
NewSession(w) ==
    [state |-> "open", opener |-> w, closers |-> {}, added |-> {}, deleted |-> {}]

\* MyDB.session, line 189:  self._db_session = self._create_session()
create_session(w) ==
    /\ pc[w] = "create"
    /\ engine # "None"
    /\ LET o == FreshObj IN
         /\ db_session' = o
         /\ sess_objs' = Collect([sess_objs EXCEPT ![o] = NewSession(w)], o, req)
    /\ pc' = [pc EXCEPT ![w] = "yield"]
    /\ UNCHANGED gateway
    /\ UNCHANGED <<store, ctx, req, resp, issued, logged_out, next_uuid, requests>>

\* MyDB.session, line 190:  yield self._db_session  (the field is read again)
yield_session(w) ==
    /\ pc[w] = "yield"
    /\ req' = [req EXCEPT ![w].session = db_session]
    /\ pc' = [pc EXCEPT ![w] = "body"]
    /\ UNCHANGED gateway
    /\ UNCHANGED <<store, db_session, sess_objs, ctx, resp, issued, logged_out,
                   next_uuid, requests>>

\* ------------------------------------------------------------ the controller
\* The exception classes that can reach a route handler, each with the classes
\* an  except  clause matches it by (itself and its bases).
SQLAlchemyBases == {"DatabaseError", "DBAPIError", "StatementError", "SQLAlchemyError",
          "Exception"}
ExcBases ==
    [ ValidationError |-> {"ValidationError", "MarshmallowError", "Exception"},
      IntegrityError |-> {"IntegrityError"} \cup SQLAlchemyBases,
      DataError |-> {"DataError"} \cup SQLAlchemyBases,
      OperationalError |-> {"OperationalError"} \cup SQLAlchemyBases,
      NoResultFound |-> {"NoResultFound", "InvalidRequestError",
                         "SQLAlchemyError", "Exception"},
      SQLAlchemyError |-> {"SQLAlchemyError", "Exception"},
      ConnectionError |-> {"ConnectionError", "OSError", "Exception"},
      ConnectionRefusedError |-> {"ConnectionRefusedError", "ConnectionError",
                                  "OSError", "Exception"},
      ValueError |-> {"ValueError", "Exception"},
      AttributeError |-> {"AttributeError", "Exception"},
      RuntimeError |-> {"RuntimeError", "Exception"},
      SessionCreationError |-> {"SessionCreationError", "Exception"},
      BadRequest |-> {"BadRequest", "HTTPException", "Exception"} ]

\* try/except: the status of the first clause whose class the exception is an
\* instance of.
FirstMatch(chain, exc) ==
    LET i == CHOOSE i \in 1..Len(chain) :
                 /\ chain[i][1] \in ExcBases[exc]
                 /\ \A j \in 1..(i - 1) : chain[j][1] \notin ExcBases[exc]
    IN  chain[i][2]

\* Variant of register's clauses with the SQLAlchemyError clause first.
register_except_store_first ==
    << <<"SQLAlchemyError", 500>>, <<"ValidationError", 422>>,
       <<"IntegrityError", 409>>, <<"DataError", 400>>,
       <<"ConnectionError", 503>>, <<"Exception", 500>> >>

\* register(): the except clauses of the route handler, in order.
register_except ==
    << <<"ValidationError", 422>>, <<"IntegrityError", 409>>,
       <<"DataError", 400>>, <<"ConnectionError", 503>>,
       <<"SQLAlchemyError", 500>>, <<"Exception", 500>> >>

register_status(exc) ==
    IF exc = "none" THEN 201 ELSE FirstMatch(register_except, exc)

\* Variant of login's clauses with a catch-all clause first that answers 400.
login_except_catch_all_first ==
    << <<"Exception", 400>>, <<"ValidationError", 422>>,
       <<"ConnectionError", 503>>, <<"SQLAlchemyError", 500>> >>

\* login(): the except clauses of the route handler, in order.
login_except ==
    << <<"ValidationError", 422>>, <<"ValueError", 400>>,
       <<"ConnectionError", 503>>, <<"SQLAlchemyError", 500>>,
       <<"Exception", 500>> >>

login_status(exc) ==
    IF exc = "none" THEN 200 ELSE FirstMatch(login_except, exc)

\* Variant of register_service: the Owner row is committed by the flush and the
\* failure comes afterwards, with nothing undone.
register_service_keeps_owner(data, os, ds) ==
    [exc |-> "ValidationError",
     owners |-> os \cup {[id |-> "uuid-new", email |-> data.owner.email,
                          phone |-> data.owner.phone,
                          password |-> sha256_hexdigest(PwdA)]},
     owner_details |-> ds]

\* Variant of register_service: the Owner row becomes visible without its
\* OwnerDetail row.
register_service_half_written(data, os, ds) ==
    [exc |-> "none",
     owners |-> os \cup {[id |-> "uuid-new", email |-> data.owner.email,
                          phone |-> data.owner.phone,
                          password |-> sha256_hexdigest(PwdA)]},
     owner_details |-> ds]

\* OwnerSessionService.register_service(data), against tables os and ds.
\* Its first statement is  with db.transaction() as session:  and MyDB has no
\* attribute `transaction`, so evaluating it raises AttributeError before any
\* statement of the block runs: no session is opened and no row is written.
register_service(data, os, ds) ==
    [exc |-> IF "transaction" \in MyDB_attrs THEN "none" ELSE "AttributeError",
     owners |-> os, owner_details |-> ds]

\* register_service, lines 65-82: the statements of the with-block, in order.
\* The block ends after the second session.add; it holds no commit.
register_service_block ==
    << "Validate Owner", "Insert Owner", "Flush", "Validate OwnerDetail",
       "Insert OwnerDetail" >>

\* The statements a call of register_service passes: the block is entered
\* only if  db.transaction()  can be evaluated.
register_service_steps ==
    IF "transaction" \in MyDB_attrs THEN register_service_block ELSE <<>>

\* POST /owner/register
register(w) ==
    /\ pc[w] = "idle" /\ requests < MaxRequests
    /\ \E data \in RegisterPayloads :
         LET r == register_service(data, owners, owner_details) IN
           /\ owners' = r.owners
           /\ owner_details' = r.owner_details
           /\ req' = [req EXCEPT ![w] =
                        [NoReq EXCEPT !.kind = "register", !.data = data,
                                      !.exc = r.exc,
                                      !.steps = register_service_steps]]
           /\ resp' = [resp EXCEPT ![w] =
                        [status |-> register_status(r.exc), session_id |-> 0, body |-> <<>>]]
    /\ pc' = [pc EXCEPT ![w] = "done"]
    /\ requests' = requests + 1
    /\ UNCHANGED gateway
    /\ UNCHANGED <<owner_sessions, db_session, sess_objs, ctx, issued,
                   logged_out, next_uuid>>

\* POST /owner/login: request.get_json(), then login_service enters db.session()
login(w) ==
    /\ pc[w] = "idle" /\ requests < MaxRequests
    /\ \E data \in LoginPayloads :
         req' = [req EXCEPT ![w] = [NoReq EXCEPT !.kind = "login", !.data = data]]
    /\ requests' = requests + 1
    /\ ctx' = [ctx EXCEPT ![w] = "login"]
    /\ pc' = [pc EXCEPT ![w] = "create"]
    /\ UNCHANGED gateway
    /\ UNCHANGED <<store, db_session, sess_objs, resp, issued, logged_out, next_uuid>>

\* login_service, lines 87-103: load the credentials, look the owner up
login_query(w) ==
    /\ pc[w] = "body" /\ ctx[w] = "login"
    /\ LET r == OwnerLoginSchema_load(req[w].data)
           found == OwnerFilterBy(owners, r.value)
       IN  \/ /\ r.errors # {}
              /\ req' = [req EXCEPT ![w].exc = "ValidationError",
                                    ![w].errors = r.errors]
              /\ pc' = [pc EXCEPT ![w] = "exit"]
           \/ /\ r.errors = {} /\ found = {}
              /\ req' = [req EXCEPT ![w].exc = "ValueError", ![w].queried = TRUE]
              /\ pc' = [pc EXCEPT ![w] = "exit"]
           \/ /\ r.errors = {}
              /\ \E o \in found :
                    req' = [req EXCEPT ![w].owner = {o}, ![w].queried = TRUE]
              /\ pc' = [pc EXCEPT ![w] = "add"]
    /\ UNCHANGED gateway
    /\ UNCHANGED <<store, db_session, sess_objs, ctx, resp, issued, logged_out,
                   next_uuid, requests>>

\* OwnerSessionModel(owner_id=...): the row's session_id is a newly generated
\* identifier.
NewSessionRow(owner_id) == [session_id |-> next_uuid, owner_id |-> owner_id]

\* SessionSchema: session_id is dump_only, owner_id is load_only.
SessionSchema_fields == [session_id |-> "dump_only", owner_id |-> "load_only"]

\* Variant of the dump that writes every attribute of the object.
SessionSchema_dump_every_attribute(obj) == obj

\* SessionSchema().dump(sess): the declared fields that are not load_only.
SessionSchema_dump(obj) ==
    [k \in {f \in DOMAIN SessionSchema_fields \cap DOMAIN obj :
               SessionSchema_fields[f] # "load_only"} |-> obj[k]]

\* login_service, lines 105-108: mint the Session row and session.add(sess)
login_add(w) ==
    /\ pc[w] = "add"
    /\ LET o == req[w].session
           owner == CHOOSE x \in req[w].owner : TRUE
           row == NewSessionRow(owner.id)
       IN  /\ sess_objs' = [sess_objs EXCEPT ![o].added = @ \cup {row}]
           /\ req' = [req EXCEPT ![w].new_id = row.session_id]
    /\ next_uuid' = next_uuid + 1
    /\ pc' = [pc EXCEPT ![w] = "commit"]
    /\ UNCHANGED gateway
    /\ UNCHANGED <<store, db_session, ctx, resp, issued, logged_out, requests>>

\* login_service, line 109: session.commit()
login_commit(w) ==
    /\ pc[w] = "commit"
    /\ LET o == req[w].session IN
         /\ owner_sessions' = Committed(o)
         /\ sess_objs' = [sess_objs EXCEPT ![o].added = {}, ![o].deleted = {}]
    /\ pc' = [pc EXCEPT ![w] = "exit"]
    /\ UNCHANGED gateway
    /\ UNCHANGED <<owners, owner_details, db_session, ctx, req, resp, issued,
                   logged_out, next_uuid, requests>>

\* Header values a client can present: a session id some login answered, or
\* a value that is no session id.
Tokens == {issued[i] : i \in 1..Len(issued)} \cup {BogusToken}
Headers == {<<>>} \cup {[Authorization |-> t] : t \in Tokens}

\* POST /owner/logout: is_owner_loggedin.wrapper, lines 50-54
logout(w) ==
    /\ pc[w] = "idle" /\ requests < MaxRequests
    /\ \E header \in Headers :
         /\ req' = [req EXCEPT ![w] =
                [NoReq EXCEPT !.kind = "logout", !.data = header,
                   !.after_logout = \E t \in logged_out : header = [Authorization |-> t]]]
         /\ IF "Authorization" \notin DOMAIN header
            THEN /\ resp' = [resp EXCEPT ![w] = [status |-> 401, session_id |-> 0, body |-> <<>>]]
                 /\ pc' = [pc EXCEPT ![w] = "done"]
                 /\ ctx' = ctx
            ELSE /\ resp' = resp
                 /\ pc' = [pc EXCEPT ![w] = "create"]
                 /\ ctx' = [ctx EXCEPT ![w] = "guard"]
    /\ requests' = requests + 1
    /\ UNCHANGED gateway
    /\ UNCHANGED <<store, db_session, sess_objs, issued, logged_out, next_uuid>>

\* Variant of the session lookup that matches any row.
SessionFilterBy_any_row(rows, session_id) == rows

\* session.query(OwnerSessionModel).filter_by(session_id=session_id)
SessionFilterBy(rows, session_id) == {r \in rows : r.session_id = session_id}

\* is_owner_loggedin.wrapper, lines 56-61: look the session row up
guard_query(w) ==
    /\ pc[w] = "body" /\ ctx[w] = "guard"
    /\ LET found == SessionFilterBy(SessView(req[w].session), req[w].data.Authorization)
       IN  \/ /\ found = {}
              /\ req' = [req EXCEPT ![w].sess = {}, ![w].queried = TRUE]
           \/ \E r \in found :
                 req' = [req EXCEPT ![w].sess = {r}, ![w].queried = TRUE]
    /\ pc' = [pc EXCEPT ![w] = "exit"]
    /\ UNCHANGED gateway
    /\ UNCHANGED <<store, db_session, sess_objs, ctx, resp, issued, logged_out,
                   next_uuid, requests>>

\* Variant of Query.delete that raises when no row matches the filter.
QueryDelete_raises_on_no_match(view, session_id) ==
    [exc |-> IF \E r \in view : r.session_id = session_id
             THEN "none" ELSE "NoResultFound",
     rowcount |-> Cardinality({r \in view : r.session_id = session_id}),
     rows |-> {r \in view : r.session_id = session_id}]

\* Variant of Query.delete that ends every session of the token's owner.
QueryDelete_every_session_of_owner(view, session_id) ==
    LET hit == {r \in view : \E q \in view : /\ q.session_id = session_id
                                              /\ q.owner_id = r.owner_id}
    IN  [exc |-> "none", rowcount |-> Cardinality(hit), rows |-> hit]

\* session.query(OwnerSessionModel).filter_by(session_id=...).delete(): a bulk
\* DELETE of the rows the filter matches; it returns the number of rows
\* matched, which may be 0, and raises nothing when none matches.
QueryDelete(view, session_id) ==
    [exc |-> "none", rowcount |-> Cardinality(SessionFilterBy(view, session_id)),
     rows |-> SessionFilterBy(view, session_id)]

\* logout_service, lines 119-123: query(...).filter_by(session_id=...).delete()
\* A DELETE inside the session's transaction; logout_service never commits.
logout_delete(w) ==
    /\ pc[w] = "body" /\ ctx[w] = "logout"
    /\ LET o == req[w].session
           t == req[w].data.Authorization
           r == QueryDelete(SessView(o), t)
       IN  /\ sess_objs' = IF r.exc # "none" THEN sess_objs
                           ELSE [sess_objs EXCEPT
                                   ![o].added = @ \ r.rows,
                                   ![o].deleted = @ \cup {q.session_id : q \in r.rows}]
           /\ req' = [req EXCEPT ![w].exc = r.exc, ![w].queried = TRUE]
    /\ pc' = [pc EXCEPT ![w] = "exit"]
    /\ UNCHANGED gateway
    /\ UNCHANGED <<store, db_session, ctx, resp, issued, logged_out,
                   next_uuid, requests>>

\* logout(): the except clauses of the route handler, in order.
logout_except ==
    << <<"ConnectionError", 503>>, <<"SQLAlchemyError", 500>>,
       <<"Exception", 500>> >>

logout_status(exc) ==
    IF exc = "none" THEN 200 ELSE FirstMatch(logout_except, exc)

\* MyDB.session, lines 191-193:  finally: if self._db_session: close it
\* and then what the handler does once the with-block is left.
exit_session(w) ==
    /\ pc[w] = "exit"
    /\ req' = [req EXCEPT ![w].session = 0]
    /\ sess_objs' = Collect(IF db_session = 0 THEN sess_objs
                            ELSE [sess_objs EXCEPT ![db_session] = Closed(@, w)],
                            db_session, req')
    /\ \/ /\ ctx[w] = "login"
          /\ resp' = [resp EXCEPT ![w] =
                [status |-> login_status(req[w].exc),
                 session_id |-> IF req[w].exc = "none" THEN req[w].new_id ELSE 0,
                 body |-> IF req[w].exc = "none"
                          THEN SessionSchema_dump(
                                 [session_id |-> req[w].new_id,
                                  owner_id |-> (CHOOSE x \in req[w].owner : TRUE).id])
                          ELSE <<>>]]
          /\ issued' = IF req[w].exc = "none" THEN Append(issued, req[w].new_id)
                       ELSE issued
          /\ pc' = [pc EXCEPT ![w] = "done"]
          /\ ctx' = [ctx EXCEPT ![w] = "none"]
          /\ UNCHANGED logged_out
       \/ /\ ctx[w] = "guard" /\ req[w].sess = {}
          /\ resp' = [resp EXCEPT ![w] = [status |-> 401, session_id |-> 0, body |-> <<>>]]
          /\ pc' = [pc EXCEPT ![w] = "done"]
          /\ ctx' = [ctx EXCEPT ![w] = "none"]
          /\ UNCHANGED <<issued, logged_out>>
       \/ /\ ctx[w] = "guard" /\ req[w].sess # {}
          /\ pc' = [pc EXCEPT ![w] = "create"]
          /\ ctx' = [ctx EXCEPT ![w] = "logout"]
          /\ UNCHANGED <<resp, issued, logged_out>>
       \/ /\ ctx[w] = "logout"
          /\ resp' = [resp EXCEPT ![w] =
                [status |-> logout_status(req[w].exc), session_id |-> 0, body |-> <<>>]]
          /\ logged_out' = IF req[w].exc = "none"
                           THEN logged_out \cup {req[w].data.Authorization}
                           ELSE logged_out
          /\ pc' = [pc EXCEPT ![w] = "done"]
          /\ ctx' = [ctx EXCEPT ![w] = "none"]
          /\ UNCHANGED issued
    /\ UNCHANGED gateway
    /\ UNCHANGED <<store, db_session, next_uuid, requests>>

\* The response has been sent; the worker is free for the next request.
finish(w) ==
    /\ pc[w] = "done"
    /\ pc' = [pc EXCEPT ![w] = "idle"]
    /\ req' = [req EXCEPT ![w] = NoReq]
    /\ resp' = [resp EXCEPT ![w] = NoResp]
    /\ UNCHANGED gateway
    /\ UNCHANGED <<store, db_session, sess_objs, ctx, issued, logged_out,
                   next_uuid, requests>>

Next ==
    \E w \in Workers :
        \/ register(w) \/ login(w) \/ logout(w)
        \/ create_session(w) \/ yield_session(w)
        \/ login_query(w) \/ login_add(w) \/ login_commit(w)
        \/ guard_query(w) \/ logout_delete(w)
        \/ exit_session(w) \/ finish(w)

Spec == Init /\ [][Next]_vars
\* ------------------------------------------------- OwnerModel, OwnerDetailModel
\* The rows register_service builds (service.py, OwnerModel(**...) followed by
\* session.add and session.flush, then OwnerDetailModel(**...) and session.add),
\* taken on their own against empty tables.

\* mapped_column(primary_key=True, default=uuid1()): the call is evaluated once,
\* when the class body runs, and its value is the scalar default of every row.
OwnerModel_id == "uuid1() of class OwnerModel"

OwnerDetailModel_id == "uuid1() of class OwnerDetailModel"

\* OwnerModel(**owner_serialized_data): no id is passed, the default fills it.
OwnerModel(data) ==
    [id |-> OwnerModel_id, email |-> data.email, phone |-> data.phone,
     password |-> data.password]

\* OwnerDetailModel(**owner_detail_serialized_data)
OwnerDetailModel(data) == [id |-> OwnerDetailModel_id, owner_id |-> data.owner_id]

\* Variant of the owners constraints that enforces the primary key only.
owners_constraints_primary_key_only(row, rows) == \A o \in rows : o.id # row.id

\* INSERT into owners: primary key id, unique email, unique phone.
owners_constraints(row, rows) ==
    \A o \in rows : o.id # row.id /\ o.email # row.email /\ o.phone # row.phone

\* INSERT into owner_details: primary key id, unique owner_id.
owner_details_constraints(row, rows) ==
    \A d \in rows : d.id # row.id /\ d.owner_id # row.owner_id

OrmOwnerData ==
    {[email |-> e, phone |-> p, password |-> sha256_hexdigest(PwdA)] :
        e \in {EmailA, EmailB, EmailC}, p \in {PhoneA, PhoneB, PhoneC}}

\* session.add(OwnerModel(**data)); session.flush()
insert_owner(w) ==
    /\ pc[w] = "idle" /\ requests < MaxRequests
    /\ \E data \in OrmOwnerData :
         LET row == OwnerModel(data)
             ok == owners_constraints(row, owners) IN
           /\ owners' = IF ok THEN owners \cup {row} ELSE owners
           /\ req' = [req EXCEPT ![w] =
                        [NoReq EXCEPT !.kind = "insert_owner", !.data = data,
                                      !.owner = {row},
                                      !.exc = IF ok THEN "none"
                                              ELSE "IntegrityError"]]
           /\ resp' = [resp EXCEPT ![w] =
                        [status |-> register_status(IF ok THEN "none"
                                                    ELSE "IntegrityError"),
                         session_id |-> 0, body |-> <<>>]]
    /\ pc' = [pc EXCEPT ![w] = "done"]
    /\ requests' = requests + 1
    /\ UNCHANGED gateway
    /\ UNCHANGED <<owner_details, owner_sessions, db_session, sess_objs, ctx,
                   issued, logged_out, next_uuid>>

\* raw_owner_detail_data["owner_id"] = owner_data.id;
\* session.add(OwnerDetailModel(**data))
insert_owner_detail(w) ==
    /\ pc[w] = "idle" /\ requests < MaxRequests
    /\ \E o \in owners :
         LET data == [owner_id |-> o.id]
             row == OwnerDetailModel(data)
             ok == owner_details_constraints(row, owner_details) IN
           /\ owner_details' = IF ok THEN owner_details \cup {row}
                               ELSE owner_details
           /\ req' = [req EXCEPT ![w] =
                        [NoReq EXCEPT !.kind = "insert_owner_detail",
                                      !.data = data,
                                      !.exc = IF ok THEN "none"
                                              ELSE "IntegrityError"]]
           /\ resp' = [resp EXCEPT ![w] =
                        [status |-> register_status(IF ok THEN "none"
                                                    ELSE "IntegrityError"),
                         session_id |-> 0, body |-> <<>>]]
    /\ pc' = [pc EXCEPT ![w] = "done"]
    /\ requests' = requests + 1
    /\ UNCHANGED gateway
    /\ UNCHANGED <<owners, owner_sessions, db_session, sess_objs, ctx,
                   issued, logged_out, next_uuid>>

\* The tables are empty, or hold the rows earlier runs of the application left.
InitOrm ==
    /\ owners \in {{}, SeedOwners}
    /\ owner_details = {SeedDetailOf(o) : o \in owners}
    /\ owner_sessions = {}
    /\ db_session = 0
    /\ sess_objs = [o \in ObjIds |-> NoObj]
    /\ pc = [w \in Workers |-> "idle"]
    /\ ctx = [w \in Workers |-> "none"]
    /\ req = [w \in Workers |-> NoReq]
    /\ resp = [w \in Workers |-> NoResp]
    /\ issued = <<>> /\ logged_out = {}
    /\ next_uuid = 1 /\ requests = 0
    /\ Initialized

NextOrm ==
    \E w \in Workers : insert_owner(w) \/ insert_owner_detail(w) \/ finish(w)

SpecOrm == InitOrm /\ [][NextOrm]_vars

\* ------------------------------------------------------------ logout_service
\* OwnerSessionService.logout_service(header) called on its own, one call after
\* another, with any Authorization value: against a store that holds Session
\* rows, with tokens that match a row and tokens that match none.
SessionIds(rows) == {r.session_id : r \in rows}

SeedSessions ==
    { [session_id |-> 1, owner_id |-> "uuid-a"],
      [session_id |-> 2, owner_id |-> "uuid-b"] }

\* logout_service, line 117:  session_id = header["Authorization"]
logout_service(w) ==
    /\ pc[w] = "idle" /\ requests < MaxRequests
    /\ \A v \in Workers : pc[v] \in {"idle", "done"}
    /\ \E t \in SessionIds(SeedSessions) \cup {BogusToken} :
         req' = [req EXCEPT ![w] =
                   [NoReq EXCEPT !.kind = "logout_service",
                                 !.data = [Authorization |-> t],
                                 !.after_logout = t \in logged_out]]
    /\ ctx' = [ctx EXCEPT ![w] = "logout"]
    /\ pc' = [pc EXCEPT ![w] = "create"]
    /\ requests' = requests + 1
    /\ UNCHANGED gateway
    /\ UNCHANGED <<store, db_session, sess_objs, resp, issued, logged_out, next_uuid>>

InitLogout ==
    /\ owners = SeedOwners
    /\ owner_details = {SeedDetailOf(o) : o \in owners}
    /\ owner_sessions \in SUBSET SeedSessions
    /\ db_session = 0
    /\ sess_objs = [o \in ObjIds |-> NoObj]
    /\ pc = [w \in Workers |-> "idle"]
    /\ ctx = [w \in Workers |-> "none"]
    /\ req = [w \in Workers |-> NoReq]
    /\ resp = [w \in Workers |-> NoResp]
    /\ issued = <<>> /\ logged_out = {}
    /\ next_uuid = Cardinality(SeedSessions) + 1 /\ requests = 0
    /\ Initialized

NextLogout ==
    \E w \in Workers :
        \/ logout_service(w) \/ create_session(w) \/ yield_session(w)
        \/ logout_delete(w) \/ exit_session(w) \/ finish(w)

SpecLogout == InitLogout /\ [][NextLogout]_vars

\* ------------------------------------------------ the gateway's initialization
\* The module-level db = MyDB() from its construction on: create_app() calls
\* db.init_app(app) with whatever DATABASE_URI the configuration holds, and
\* callers enter  with db.session()  before or after that.

\* Variant of init_app that builds the engine before it looks at the URI.
MyDB_init_app_engine_first(cfg, self) ==
    [uri |-> cfg, engine |-> "Engine",
     exc |-> IF cfg = "None" THEN "DatabaseURINotFoundError" ELSE "none"]

\* MyDB.init_app, lines 144-148: the gateway's fields after the call and the
\* exception it raised.  create_engine raises ArgumentError on a string that is
\* no URL, before self._engine is assigned.
MyDB_init_app(cfg, self) ==
    IF cfg = "None"
    THEN [uri |-> cfg, engine |-> self.engine, exc |-> "DatabaseURINotFoundError"]
    ELSE IF cfg = BadURI
    THEN [uri |-> cfg, engine |-> self.engine, exc |-> "ArgumentError"]
    ELSE [uri |-> cfg, engine |-> "Engine", exc |-> "none"]

\* App._intialize_extensions, app.py line 86:  db.init_app(self._app)
init_app ==
    /\ LET r == MyDB_init_app(config, [uri |-> uri, engine |-> engine]) IN
         /\ uri' = r.uri
         /\ engine' = r.engine
         /\ app_exc' = r.exc
    /\ UNCHANGED <<store, db_session, sess_objs, pc, ctx, req, resp, issued,
                   logged_out, next_uuid, requests, config>>

\* MyDB._create_session, lines 151-160, when it does not return a Session: the
\* RuntimeError of the engine check, or the SessionCreationError raised from a
\* SQLAlchemyError of sessionmaker(bind=self._engine)().
MyDB_create_session_exc(eng) ==
    IF eng = "None" THEN "RuntimeError" ELSE "SessionCreationError"

\* MyDB.session, lines 188-193, when _create_session raises at line 189:
\* nothing is yielded, the finally clause closes whatever self._db_session
\* holds, and the exception reaches the caller of  with db.session().
create_session_raises(w) ==
    /\ pc[w] = "create"
    /\ LET exc == MyDB_create_session_exc(engine) IN
         /\ req' = [req EXCEPT ![w].exc = exc]
         /\ resp' = [resp EXCEPT ![w] =
                [NoResp EXCEPT !.status =
                   IF ctx[w] = "login" THEN login_status(exc)
                   ELSE IF ctx[w] = "logout" THEN logout_status(exc)
                   ELSE 500]]
    /\ sess_objs' = Collect(IF db_session = 0 THEN sess_objs
                            ELSE [sess_objs EXCEPT ![db_session] = Closed(@, w)],
                            db_session, req')
    /\ pc' = [pc EXCEPT ![w] = "done"]
    /\ ctx' = [ctx EXCEPT ![w] = "none"]
    /\ UNCHANGED gateway
    /\ UNCHANGED <<store, db_session, issued, logged_out, next_uuid, requests>>

InitGateway ==
    /\ owners = SeedOwners
    /\ owner_details = {SeedDetailOf(o) : o \in owners}
    /\ owner_sessions \in SUBSET SeedSessions
    /\ db_session = 0
    /\ sess_objs = [o \in ObjIds |-> NoObj]
    /\ pc = [w \in Workers |-> "idle"]
    /\ ctx = [w \in Workers |-> "none"]
    /\ req = [w \in Workers |-> NoReq]
    /\ resp = [w \in Workers |-> NoResp]
    /\ issued = <<>> /\ logged_out = {}
    /\ next_uuid = Cardinality(SeedSessions) + 1 /\ requests = 0
    /\ config \in ConfigValues
    /\ uri = "None" /\ engine = "None" /\ app_exc = "none"

NextGateway ==
    \/ init_app
    \/ \E w \in Workers :
          \/ logout_service(w) \/ create_session(w) \/ create_session_raises(w)
          \/ yield_session(w) \/ logout_delete(w) \/ exit_session(w) \/ finish(w)

SpecGateway == InitGateway /\ [][NextGateway]_vars

\* ------------------------------------------------------- the route handlers
\* register() and login() as try/except around the service call, for every
\* outcome the call can have: a return, or an exception of any class.
Outcomes == {"none"} \cup DOMAIN ExcBases

\* register(), lines 86-107, with register_service's outcome as input
register_outcome(w) ==
    /\ pc[w] = "idle" /\ requests < MaxRequests
    /\ \E exc \in Outcomes :
         /\ req' = [req EXCEPT ![w] =
                      [NoReq EXCEPT !.kind = "register_outcome", !.exc = exc]]
         /\ resp' = [resp EXCEPT ![w] =
                      [NoResp EXCEPT !.status = register_status(exc)]]
    /\ pc' = [pc EXCEPT ![w] = "done"]
    /\ requests' = requests + 1
    /\ UNCHANGED gateway
    /\ UNCHANGED <<store, db_session, sess_objs, ctx, issued, logged_out, next_uuid>>

\* login(), lines 142-160, with login_service's outcome as input
login_outcome(w) ==
    /\ pc[w] = "idle" /\ requests < MaxRequests
    /\ \E exc \in Outcomes :
         LET res == SessionSchema_dump(NewSessionRow("uuid-a")) IN
           /\ req' = [req EXCEPT ![w] =
                        [NoReq EXCEPT !.kind = "login_outcome", !.exc = exc,
                           !.new_id = IF exc = "none" THEN res.session_id ELSE 0]]
           /\ resp' = [resp EXCEPT ![w] =
                        [status |-> login_status(exc),
                         session_id |-> IF exc = "none" THEN res.session_id ELSE 0,
                         body |-> IF exc = "none" THEN res ELSE <<>>]]
           /\ next_uuid' = IF exc = "none" THEN next_uuid + 1 ELSE next_uuid
    /\ pc' = [pc EXCEPT ![w] = "done"]
    /\ requests' = requests + 1
    /\ UNCHANGED gateway
    /\ UNCHANGED <<store, db_session, sess_objs, ctx, issued, logged_out>>

NextHandlers ==
    \E w \in Workers : register_outcome(w) \/ login_outcome(w) \/ finish(w)

SpecHandlers == Init /\ [][NextHandlers]_vars

\* ----------------------------------------------------------------- OwnerSchema
\* @pre_load process_input: runs on the raw mapping, before any field is
\* validated, and replaces the password by its digest.
process_input(data) ==
    IF "password" \in DOMAIN data
    THEN [data EXCEPT !["password"] = sha256_hexdigest(@)]
    ELSE data

\* Field-level errors of OwnerSchema on the mapping the pre_load hook returned:
\* email, phone and password are required; Range on phone, Length on password.
OwnerFieldErrors(data) ==
    {k \in {"email"} : k \notin DOMAIN data \/ ~EmailOK(data[k])}
    \cup {k \in {"phone"} : k \notin DOMAIN data \/ ~PhoneRangeOK(data[k])}
    \cup {k \in {"password"} :
            k \notin DOMAIN data \/ ~PasswordLengthOK(data[k])}

\* OwnerSchema().load(raw_owner_data): the errors of a ValidationError, or the
\* loaded mapping.  The pre_load hook is handed the caller's mapping itself and
\* assigns data["password"] in it, so raw, the caller's mapping after the
\* call, is the hook's result.
OwnerSchema_load(data) ==
    LET pre == process_input(data)
    IN  [errors |-> OwnerFieldErrors(pre), value |-> pre, raw |-> pre]

Pwd8 == Str("12345678")
Pwd16 == Str("1234567890123456")
Pwd17 == Str("12345678901234567")

OwnerInputs ==
    { Obj(ks, [email |-> e, phone |-> p, password |-> w]) :
        ks \in {{"email", "phone", "password"}, {"email", "phone"}},
        e \in {EmailC, EmailBad}, p \in {PhoneC, PhoneShort},
        w \in {PwdShort, Pwd8, PwdA, Pwd16, Pwd17} }

\* register_service, lines 65-67:  owner_schema.load(raw_owner_data)
owner_schema_load(w) ==
    /\ pc[w] = "idle" /\ requests < MaxRequests
    /\ \E data \in OwnerInputs :
         LET r == OwnerSchema_load(data) IN
           /\ req' = [req EXCEPT ![w] =
                        [NoReq EXCEPT !.kind = "owner_schema_load", !.data = data,
                           !.raw = r.raw,
                           !.owner = IF r.errors = {} THEN {r.value} ELSE {},
                           !.exc = IF r.errors = {} THEN "none"
                                   ELSE "ValidationError"]]
           /\ resp' = [resp EXCEPT ![w] =
                        [NoResp EXCEPT !.status =
                           register_status(IF r.errors = {} THEN "none"
                                           ELSE "ValidationError")]]
    /\ pc' = [pc EXCEPT ![w] = "done"]
    /\ requests' = requests + 1
    /\ UNCHANGED gateway
    /\ UNCHANGED <<store, db_session, sess_objs, ctx, issued, logged_out, next_uuid>>

NextOwnerSchema == \E w \in Workers : owner_schema_load(w) \/ finish(w)

SpecOwnerSchema == Init /\ [][NextOwnerSchema]_vars

\* ------------------------------------------------ OwnerDetailSchema.validate_age
\* Dates are <<year, month, day>>; timedelta.days of the difference of two
\* datetimes at the same time of day is the difference of their proleptic
\* Gregorian ordinals, which is how datetime subtraction computes it.
is_leap(y) == y % 4 = 0 /\ (y % 100 # 0 \/ y % 400 = 0)

days_before_year(y) ==
    (y - 1) * 365 + (y - 1) \div 4 - (y - 1) \div 100 + (y - 1) \div 400

days_in_month(y, m) ==
    IF m = 2 THEN (IF is_leap(y) THEN 29 ELSE 28)
    ELSE IF m \in {4, 6, 9, 11} THEN 30 ELSE 31

RECURSIVE days_before_month(_, _)
days_before_month(y, m) ==
    IF m = 1 THEN 0 ELSE days_before_month(y, m - 1) + days_in_month(y, m - 1)

ymd2ord(date) ==
    days_before_year(date[1]) + days_before_month(date[1], date[2]) + date[3]

DaysPerYear == 365
AdultAge == 18

\* validate_age, lines 144-147: the exception it raises, "none" if it returns.
validate_age(dob, now) ==
    LET age == (ymd2ord(now) - ymd2ord(dob)) \div DaysPerYear
    IN  IF age < AdultAge THEN "ValidationError" ELSE "none"

\* datetime.now() at the time of validation, and dates of birth on both sides
\* of the eighteenth birthday.
Nows == {<<2026, 11, 3>>, <<2026, 10, 30>>}
Dobs == {<<2008, m, d>> : m \in {10, 11}, d \in 1..30}

\* OwnerDetailSchema().load: the dob field,  validate=validate_age
owner_detail_dob_load(w) ==
    /\ pc[w] = "idle" /\ requests < MaxRequests
    /\ \E dob \in Dobs, now \in Nows :
         req' = [req EXCEPT ![w] =
                   [NoReq EXCEPT !.kind = "owner_detail_dob_load",
                                 !.data = [dob |-> dob, now |-> now],
                                 !.exc = validate_age(dob, now)]]
    /\ pc' = [pc EXCEPT ![w] = "done"]
    /\ requests' = requests + 1
    /\ UNCHANGED gateway
    /\ UNCHANGED <<store, db_session, sess_objs, ctx, resp, issued, logged_out,
                   next_uuid>>

NextAge == \E w \in Workers : owner_detail_dob_load(w) \/ finish(w)

SpecAge == Init /\ [][NextAge]_vars

\* ------------------------------------------------------ request/response logging
\* Header names are sequences of characters; a headers object is the sequence
\* of <<name, value>> pairs that headers.items() iterates over.
UpperCase ==
    <<"A", "B", "C", "D", "E", "F", "G", "H", "I", "J", "K", "L", "M", "N", "O", "P", "Q", "R", "S", "T", "U", "V", "W", "X", "Y", "Z">>
LowerCase ==
    <<"a", "b", "c", "d", "e", "f", "g", "h", "i", "j", "k", "l", "m", "n", "o", "p", "q", "r", "s", "t", "u", "v", "w", "x", "y", "z">>

\* str.lower(), character by character
lower(key) ==
    [i \in DOMAIN key |->
        IF \E j \in DOMAIN UpperCase : UpperCase[j] = key[i]
        THEN LowerCase[CHOOSE j \in DOMAIN UpperCase : UpperCase[j] = key[i]]
        ELSE key[i]]

\* keyword in key
Contains(key, keyword) ==
    \E i \in 1..(Len(key) - Len(keyword) + 1) :
        SubSeq(key, i, i + Len(keyword) - 1) = keyword

Keywords == {<<"a", "u", "t", "h", "o", "r", "i", "z", "a", "t", "i", "o", "n">>,
             <<"c", "o", "o", "k", "i", "e">>}

Mask == "*****"

\* Variant of parse_header that compares the name as it is spelled.
parse_header_case_sensitive(headers) ==
    LET keys == {headers[i][1] : i \in DOMAIN headers}
        last(k) == CHOOSE i \in DOMAIN headers :
                      headers[i][1] = k /\ \A j \in DOMAIN headers : j > i => headers[j][1] # k
    IN  [k \in keys |->
            IF \E keyword \in Keywords : Contains(k, keyword)
            THEN Mask ELSE headers[last(k)][2]]

\* parse_header, lines 166-174: res[key] is assigned for every pair in turn, so
\* the last pair of a name decides its entry.
parse_header(headers) ==
    LET keys == {headers[i][1] : i \in DOMAIN headers}
        last(k) == CHOOSE i \in DOMAIN headers :
                      headers[i][1] = k /\ \A j \in DOMAIN headers : j > i => headers[j][1] # k
    IN  [k \in keys |->
            IF \E keyword \in Keywords : Contains(lower(k), keyword)
            THEN Mask ELSE headers[last(k)][2]]

H_Authorization == <<"A", "u", "t", "h", "o", "r", "i", "z", "a", "t", "i", "o", "n">>
H_ProxyAuthorization == <<"P", "r", "o", "x", "y", "-", "A", "u", "t", "h", "o", "r", "i", "z", "a", "t", "i", "o", "n">>
H_Cookie == <<"C", "o", "o", "k", "i", "e">>
H_Host == <<"H", "o", "s", "t">>
H_SetCookie == <<"S", "E", "T", "-", "C", "O", "O", "K", "I", "E">>
H_ContentType == <<"C", "o", "n", "t", "e", "n", "t", "-", "T", "y", "p", "e">>

\* The Authorization header carries the session id of a login.
TokenValues == {"session-1", "session-2"}

RequestPairs ==
    {<<H_Authorization, t>> : t \in TokenValues}
    \cup { <<H_ProxyAuthorization, "Basic cHJveHk=">>, <<H_Cookie, "theme=dark">>,
           <<H_Host, "localhost">> }

MaxHeaders == 2    \* headers of one request

\* request.headers is an EnvironHeaders over the WSGI environ, which holds one
\* entry per header name.
RequestHeaders ==
    {hs \in UNION {[1..n -> RequestPairs] : n \in 1..MaxHeaders} :
        \A i, j \in DOMAIN hs : i # j => hs[i][1] # hs[j][1]}

ResponseHeaders ==
    { << <<H_ContentType, "application/json">> >>,
      << <<H_ContentType, "application/json">>, <<H_SetCookie, "theme=dark">> >> }

\* after_request, app.py lines 103-120: logger.request_response_logging with
\* parse_request and parse_response, of which the headers entries are kept.
request_response_logging(w) ==
    /\ pc[w] = "idle" /\ requests < MaxRequests
    /\ \E rq \in RequestHeaders, rs \in ResponseHeaders :
         req' = [req EXCEPT ![w] =
                   [NoReq EXCEPT !.kind = "request_response_logging",
                                 !.data = [request |-> rq, response |-> rs],
                                 !.logged = [request |-> parse_header(rq),
                                             response |-> parse_header(rs)]]]
    /\ pc' = [pc EXCEPT ![w] = "done"]
    /\ requests' = requests + 1
    /\ UNCHANGED gateway
    /\ UNCHANGED <<store, db_session, sess_objs, ctx, resp, issued, logged_out,
                   next_uuid>>

NextLogging == \E w \in Workers : request_response_logging(w) \/ finish(w)

SpecLogging == Init /\ [][NextLogging]_vars

\* ======================================================================
\* Properties
\* ======================================================================
\* Worker w's handler answers its request in this step.
Answers(w, kind) == pc[w] # "done" /\ pc'[w] = "done" /\ req'[w].kind = kind

\* Worker w's handler takes this step.
Steps(w) == pc'[w] # pc[w]

\* A Register payload that is valid per the specification: all owner fields
\* present, valid email, phone in range, plaintext password of 8..16
\* characters, and a valid owner_detail (adult, all parts valid).
ValidRegisterPayload(data) ==
    /\ DOMAIN data.owner = {"email", "phone", "password"}
    /\ EmailOK(data.owner.email)
    /\ PhoneRangeOK(data.owner.phone)
    /\ PasswordLengthOK(data.owner.password)
    /\ data.owner_detail = ValidDetail

InUse(data, rows) ==
    \E o \in rows : o.email = data.owner.email \/ o.phone = data.owner.phone

C2_ValidRegisterCreatesOwnerAndDetail ==
    [][\A w \in Workers :
          (/\ Answers(w, "register")
           /\ ValidRegisterPayload(req'[w].data)
           /\ ~InUse(req'[w].data, owners))
          => /\ resp'[w].status = 201
             /\ \E o \in owners' \ owners, d \in owner_details' \ owner_details :
                   /\ owners' = owners \cup {o}
                   /\ owner_details' = owner_details \cup {d}
                   /\ o.email = req'[w].data.owner.email
                   /\ o.phone = req'[w].data.owner.phone
                   /\ d.owner_id = o.id]_vars

\* C3: after a Logout with token t has answered 200, no Session row with
\* session_id = t is in the committed store, and a later guarded request
\* presenting t is answered 401.
C3_LogoutDestroysSession ==
    \A w \in Workers :
        (pc[w] = "done" /\ req[w].kind = "logout")
        => /\ resp[w].status = 200
                => req[w].data.Authorization \notin SessionIds(owner_sessions)
           /\ req[w].after_logout => resp[w].status = 401

\* C4: the body of the guarded operation runs only for a request that carries
\* an Authorization header whose value is the session_id of a Session row
\* present when the guard looked it up; a request without the header, or whose
\* value matches no Session row, is answered 401 and the body does not run.
C4_GuardAdmitsOnlyLiveSessions ==
    [][\A w \in Workers :
          /\ (Steps(w) /\ pc[w] = "body" /\ ctx[w] = "guard")
             => IF req[w].data.Authorization \in SessionIds(owner_sessions)
                THEN req'[w].sess \subseteq owner_sessions
                ELSE req'[w].sess = {}
          /\ (ctx[w] # "logout" /\ ctx'[w] = "logout")
             => /\ "Authorization" \in DOMAIN req[w].data
                /\ \E r \in req[w].sess : r.session_id = req[w].data.Authorization
          /\ (Answers(w, "logout") /\ ctx[w] # "logout")
             => /\ resp'[w].status = 401
                /\ "Authorization" \notin DOMAIN req'[w].data \/ req[w].sess = {}
          /\ (Steps(w) /\ ctx[w] = "guard" /\ req[w].sess = {} /\ pc[w] = "exit")
             => Answers(w, "logout")]_vars

\* The logout body runs for a token that is a committed session id, while
\* some request has been rejected with 401.
C4_Witness ==
    \E w, v \in Workers :
        /\ ctx[w] = "logout" /\ pc[w] = "body"
        /\ req[w].data.Authorization \in SessionIds(owner_sessions)
        /\ pc[v] = "done" /\ req[v].kind = "logout" /\ resp[v].status = 401
\* The payload names owner o by email and/or phone and carries o's plaintext
\* password.
CorrectCredentials(data, o) ==
    /\ "password" \in DOMAIN data
    /\ PasswordLengthOK(data.password)
    /\ sha256_hexdigest(data.password) = o.password
    /\ \E k \in {"email", "phone"} : k \in DOMAIN data
    /\ \A k \in {"email", "phone"} : k \in DOMAIN data => data[k] = o[k]

Occurrences(seq, x) == Cardinality({i \in 1..Len(seq) : seq[i] = x})

\* C5: for every committed Owner, a Login with that owner's email and/or phone
\* and the correct password answers 200, a new Session row of that owner is
\* committed, and the session_id answered was answered by no earlier Login.
C5_LoginIssuesFreshSession ==
    \A w \in Workers :
        (/\ pc[w] = "done" /\ req[w].kind = "login"
         /\ \E o \in owners : CorrectCredentials(req[w].data, o))
        => /\ resp[w].status = 200
           /\ Occurrences(issued, resp[w].session_id) = 1
           /\ \E r \in owner_sessions, o \in owners :
                 /\ r.session_id = resp[w].session_id
                 /\ r.owner_id = o.id
                 /\ CorrectCredentials(req[w].data, o)

\* The payload passes validation and names no owner with that password.
WrongCredentials(data) ==
    /\ "password" \in DOMAIN data /\ PasswordLengthOK(data.password)
    /\ \E k \in {"email", "phone"} : k \in DOMAIN data
    /\ "email" \in DOMAIN data => EmailOK(data.email)
    /\ "phone" \in DOMAIN data => PhoneRangeOK(data.phone)
    /\ ~\E o \in owners : CorrectCredentials(data, o)

\* C6: a Login whose validated credentials match no Owner row answers 400
\* (InvalidCredentials); none of its steps creates a Session row or changes
\* the committed store.
C6_WrongCredentialsRejected ==
    [][\A w \in Workers :
          (req[w].kind = "login" /\ WrongCredentials(req[w].data))
          => /\ Steps(w) => /\ store' = store
                            /\ \A o \in ObjIds :
                                  sess_objs'[o].added \subseteq sess_objs[o].added
             /\ Answers(w, "login") => resp'[w].status = 400]_vars

\* A login with a registered email and another owner's password was answered
\* 400 and no Session row exists.
C6_Witness ==
    \E w \in Workers :
        /\ pc[w] = "done" /\ req[w].kind = "login"
        /\ req[w].data = [email |-> EmailA, password |-> PwdB]
        /\ resp[w].status = 400
        /\ owner_sessions = {}

\* C7: every registration's new Owner row gets an id that no other row has, so
\* inserting an Owner whose email and phone are both unused never fails.
C7_FreshIdForEveryOwner ==
    [][\A w \in Workers :
          (/\ Answers(w, "insert_owner")
           /\ \A o \in owners : /\ o.email # req'[w].data.email
                                /\ o.phone # req'[w].data.phone)
          => /\ req'[w].exc = "none"
             /\ \A new \in req'[w].owner, o \in owners : new.id # o.id]_vars

\* C8: a Register whose email or phone equals that of a committed Owner answers
\* 409 and adds no Owner row and no OwnerDetail row.
C8_DuplicateRegisterConflicts ==
    [][\A w \in Workers :
          (Answers(w, "register") /\ InUse(req'[w].data, owners))
          => /\ resp'[w].status = 409
             /\ owners' = owners /\ owner_details' = owner_details]_vars

C10_SessionsArePrivate ==
    /\ \A o \in ObjIds : sess_objs[o].closers \subseteq {sess_objs[o].opener}
    /\ \A w \in Workers :
          req[w].session # 0 => sess_objs[req[w].session].opener = w

\* C11: every session opened by db.session() is closed by the time its
\* with-block is left: when a request leaves its with-block, no Session object
\* it opened is still open (or dropped without having been closed).
C11_SessionClosedOnExit ==
    [][\A w \in Workers :
          (Steps(w) /\ pc[w] = "exit")
          => \A o \in ObjIds :
                (sess_objs[o].opener = w /\ sess_objs[o].state = "open")
                => sess_objs'[o].state = "closed"]_vars

\* The exceptions the statements inside register_service's with-block can
\* raise (schema loads, flush, the store); an exception raised while the
\* with-statement evaluates db.transaction() itself is not one of them.
RaisedInsideScope == {"ValidationError", "IntegrityError", "DataError",
                      "ConnectionError", "SQLAlchemyError"}

\* C12: the read-write scope db.transaction() that register_service enters ends
\* in exactly one of two ways: the writes made inside it are all committed (the
\* Owner row and its OwnerDetail row), or a failure inside the scope rolled all
\* of them back and both tables are as before.
C12_TransactionCommitsOrRollsBack ==
    [][\A w \in Workers :
          Answers(w, "register")
          => \/ /\ req'[w].exc = "none"
                /\ \E o \in owners' \ owners, d \in owner_details' \ owner_details :
                      /\ o.email = req'[w].data.owner.email
                      /\ d.owner_id = o.id
             \/ /\ req'[w].exc \in RaisedInsideScope
                /\ owners' = owners /\ owner_details' = owner_details]_vars

C14_LoginWithoutIdentifierRejected ==
    [][\A w \in Workers :
          (/\ req'[w].kind = "login"
           /\ \A k \in {"email", "phone"} : k \notin DOMAIN req'[w].data)
          => /\ ~req'[w].queried
             /\ Steps(w) => /\ store' = store
                            /\ \A o \in ObjIds :
                                  /\ sess_objs'[o].added \subseteq sess_objs[o].added
                                  /\ sess_objs'[o].deleted \subseteq sess_objs[o].deleted
             /\ Answers(w, "login")
                => resp'[w].status = 422 /\ req'[w].exc = "ValidationError"]_vars

\* A login that carried only a well-formed password was answered 422 without
\* having queried the store.
C14_Witness ==
    \E w \in Workers :
        /\ pc[w] = "done" /\ req[w].kind = "login"
        /\ req[w].data = [password |-> PwdA]
        /\ resp[w].status = 422 /\ ~req[w].queried

\* C15: of two Register requests in flight together whose valid payloads carry
\* the same email or the same phone, at most one commits; the other is answered
\* 409 and none of its rows persist (one Owner row at most holds that email
\* or phone).
C15_ConcurrentDuplicateRegister ==
    \A w, v \in Workers :
        (/\ w # v
         /\ pc[w] = "done" /\ req[w].kind = "register"
         /\ pc[v] = "done" /\ req[v].kind = "register"
         /\ ValidRegisterPayload(req[w].data) /\ ValidRegisterPayload(req[v].data)
         /\ \/ req[w].data.owner.email = req[v].data.owner.email
            \/ req[w].data.owner.phone = req[v].data.owner.phone)
        => /\ ~(resp[w].status = 201 /\ resp[v].status = 201)
           /\ resp[w].status = 409 \/ resp[v].status = 409
           /\ Cardinality({o \in owners : o.email = req[w].data.owner.email}) <= 1
           /\ Cardinality({o \in owners : o.phone = req[w].data.owner.phone}) <= 1

\* C16: no two committed Owner rows share an email or a phone, and no two
\* OwnerDetail rows share an owner_id.
C16_UniqueEmailPhoneOwnerId ==
    /\ \A o1, o2 \in owners :
          (o1.email = o2.email \/ o1.phone = o2.phone) => o1 = o2
    /\ \A d1, d2 \in owner_details : d1.owner_id = d2.owner_id => d1 = d2

\* An insert of an Owner row whose email is in use and whose id and phone are
\* not has been refused, and so has an OwnerDetail row for an owner that has
\* one.
C16_Witness ==
    /\ \E w \in Workers :
          /\ pc[w] = "done" /\ req[w].kind = "insert_owner"
          /\ req[w].data.email = EmailA /\ req[w].data.phone = PhoneC
          /\ req[w].exc = "IntegrityError"
          /\ \A o \in owners : o.id # OwnerModel_id /\ o.phone # PhoneC
    /\ \E v \in Workers :
          /\ pc[v] = "done" /\ req[v].kind = "insert_owner_detail"
          /\ req[v].exc = "IntegrityError"
          /\ \A d \in owner_details : d.id # OwnerDetailModel_id

\* C17: the body of a successful Login answer holds the session_id and nothing
\* else: no password (hash) and no owner_id.
C17_LoginAnswerHoldsOnlySessionId ==
    \A w \in Workers :
        (pc[w] = "done" /\ req[w].kind = "login" /\ resp[w].status = 200)
        => /\ DOMAIN resp[w].body = {"session_id"}
           /\ resp[w].body.session_id = req[w].new_id

\* A login of a committed owner, whose row holds a password hash and an id,
\* has been answered 200.
C17_Witness ==
    \E w \in Workers :
        /\ pc[w] = "done" /\ req[w].kind = "login" /\ resp[w].status = 200
        /\ \E o \in req[w].owner : o \in owners /\ o.password = sha256_hexdigest(PwdA)

\* The kind of failure an exception is, by the class it is an instance of.
IsA(exc, class) == exc # "none" /\ class \in ExcBases[exc]

\* C18: POST /owner/register answers 201 on success, 422 on a validation
\* failure, 409 on a uniqueness conflict, 400 on malformed data, 503 on a
\* connectivity failure and 500 on every other store failure or unexpected
\* failure; a uniqueness conflict or malformed-data error is never answered as
\* the generic store failure it also is.
C18_RegisterStatusPerFailureKind ==
    \A w \in Workers :
        (pc[w] = "done" /\ req[w].kind = "register_outcome")
        => LET exc == req[w].exc
               status == resp[w].status
           IN  /\ status \in {201, 422, 409, 400, 503, 500}
               /\ status = 201 <=> exc = "none"
               /\ status = 422 <=> IsA(exc, "ValidationError")
               /\ status = 409 <=> IsA(exc, "IntegrityError")
               /\ status = 400 <=> IsA(exc, "DataError")
               /\ status = 503 <=> IsA(exc, "ConnectionError")

\* A uniqueness conflict was answered 409 and another store error 500.
C18_Witness ==
    \E w, v \in Workers :
        /\ pc[w] = "done" /\ req[w].kind = "register_outcome"
        /\ req[w].exc = "IntegrityError" /\ resp[w].status = 409
        /\ pc[v] = "done" /\ req[v].kind = "register_outcome"
        /\ req[v].exc = "OperationalError" /\ resp[v].status = 500

\* C19: POST /owner/login answers 200 with a session_id on success, 422 on a
\* validation failure, 400 on invalid credentials, 503 on a connectivity
\* failure and 500 on every other failure; a validation failure is never
\* answered 400 and no failed login is answered 200.
C19_LoginStatusPerFailureKind ==
    \A w \in Workers :
        (pc[w] = "done" /\ req[w].kind = "login_outcome")
        => LET exc == req[w].exc
               status == resp[w].status
           IN  /\ status \in {200, 422, 400, 503, 500}
               /\ status = 200 <=> exc = "none"
               /\ status = 200 => DOMAIN resp[w].body = {"session_id"}
               /\ status = 422 <=> IsA(exc, "ValidationError")
               /\ status = 400 <=> IsA(exc, "ValueError")
               /\ status = 503 <=> IsA(exc, "ConnectionError")

\* A validation failure was answered 422 and invalid credentials 400.
C19_Witness ==
    \E w, v \in Workers :
        /\ pc[w] = "done" /\ req[w].kind = "login_outcome"
        /\ req[w].exc = "ValidationError" /\ resp[w].status = 422
        /\ pc[v] = "done" /\ req[v].kind = "login_outcome"
        /\ req[v].exc = "ValueError" /\ resp[v].status = 400

\* C20: the Owner validator accepts an input whose email and phone are valid
\* exactly when its plaintext password has 8 to 16 characters, and the password
\* of its output is then the hash of that plaintext, not the plaintext.
C20_OwnerValidatorPasswordRule ==
    \A w \in Workers :
        (/\ pc[w] = "done" /\ req[w].kind = "owner_schema_load"
         /\ DOMAIN req[w].data = {"email", "phone", "password"}
         /\ EmailOK(req[w].data.email) /\ PhoneRangeOK(req[w].data.phone))
        => /\ req[w].exc = "none" <=> PasswordLengthOK(req[w].data.password)
           /\ \A out \in req[w].owner :
                 /\ out.password = sha256_hexdigest(req[w].data.password)
                 /\ out.password # req[w].data.password

\* The owner part of a Register payload lacks email, phone or password, or its
\* owner_detail part lacks one of its required fields.
LacksRequiredField(data) ==
    \/ \E k \in {"email", "phone", "password"} : k \notin DOMAIN data.owner
    \/ \E k \in DOMAIN ValidDetail : k \notin DOMAIN data.owner_detail

\* C21: a Register whose payload lacks a required field is answered 422
\* (ValidationFailure), never 409 and never 500.
C21_MissingFieldIsValidationFailure ==
    [][\A w \in Workers :
          (Answers(w, "register") /\ LacksRequiredField(req'[w].data))
          => resp'[w].status = 422]_vars

\* Every constraint of OwnerLoginSchema that a payload violates: the field
\* constraints and the at-least-one-of(email, phone) constraint.
LoginViolations(data) == LoginFieldErrors(data) \cup validate_at_least_one_field(data)

\* C22: the ValidationError of a login lists every constraint the payload
\* violates, not only some: a payload with neither email nor phone and a
\* missing or ill-sized password reports the password violation and the
\* at-least-one-of(email, phone) violation.
C22_EveryViolationReported ==
    \A w \in Workers :
        (req[w].kind = "login" /\ req[w].exc = "ValidationError")
        => req[w].errors = LoginViolations(req[w].data)

\* C23: validation is a pure transformation: after OwnerSchema().load, whether
\* it succeeded or failed, the caller's raw mapping holds exactly the values it
\* held before the call, the plaintext password included.
C23_LoadLeavesInputUnchanged ==
    \A w \in Workers :
        (pc[w] = "done" /\ req[w].kind = "owner_schema_load")
        => req[w].raw = req[w].data

\* C24: gateway initialization fails fast.  Whenever the configuration holds no
\* DATABASE_URI, init_app raises DatabaseURINotFoundError and creates no engine,
\* and a gateway left in that state never yields a session: no caller of
\* db.session() gets past session creation and the gateway holds no session.
C24_InitFailsFastWithoutURI ==
    /\ [][(config = "None" /\ app_exc' # app_exc)
          => (app_exc' = "DatabaseURINotFoundError" /\ engine' = "None")]_vars
    /\ [](config = "None"
          => /\ engine = "None" /\ db_session = 0
             /\ \A w \in Workers : pc[w] \notin {"yield", "body", "exit"})

\* init_app has failed for want of a URI, and a caller that then entered
\* db.session() was turned away.
C24_Witness ==
    /\ config = "None" /\ app_exc = "DatabaseURINotFoundError"
    /\ \E w \in Workers : pc[w] = "done" /\ req[w].exc = "RuntimeError"

\* C25: whenever a session cannot be created, because the engine is not
\* initialized or because the driver reports an error, session creation fails
\* with SessionCreationError and with no other error kind.
C25_SessionCreationErrorOnly ==
    [][\A w \in Workers :
          (pc[w] = "create" /\ pc'[w] = "done")
          => req'[w].exc = "SessionCreationError"]_vars

\* The date a is not later than the date b.
NotLater(a, b) ==
    \/ a[1] < b[1]
    \/ a[1] = b[1] /\ a[2] < b[2]
    \/ a[1] = b[1] /\ a[2] = b[2] /\ a[3] <= b[3]

\* C26: a dob is accepted by OwnerDetail validation exactly when its owner is
\* at least 18 years old, that is when the 18th anniversary of the dob is not
\* in the future at validation time; every dob of a younger owner is rejected.
C26_AcceptedDobIsAdult ==
    \A w \in Workers :
        (pc[w] = "done" /\ req[w].kind = "owner_detail_dob_load")
        => LET dob == req[w].data.dob
               anniversary == <<dob[1] + 18, dob[2], dob[3]>>
           IN  (req[w].exc = "none") <=> NotLater(anniversary, req[w].data.now)

\* The names of the test headers that contain "authorization" or "cookie" in
\* some spelling.
RedactedNames == {H_Authorization, H_ProxyAuthorization, H_Cookie, H_SetCookie}

\* C27: in every logged request/response record each header whose name
\* contains "authorization" or "cookie", in any case, has the value "*****",
\* every other header is logged under its own name with its value unchanged,
\* and no logged header value is a session token.
C27_SensitiveHeadersRedacted ==
    \A w \in Workers :
        (pc[w] = "done" /\ req[w].kind = "request_response_logging")
        => \A part \in {"request", "response"} :
             LET hs == req[w].data[part]
                 lg == req[w].logged[part]
             IN  /\ DOMAIN lg = {hs[i][1] : i \in DOMAIN hs}
                 /\ \A i \in DOMAIN hs :
                      lg[hs[i][1]] = IF hs[i][1] \in RedactedNames
                                     THEN "*****" ELSE hs[i][2]
                 /\ \A k \in DOMAIN lg : lg[k] \notin TokenValues

\* A record was logged for a request that carried a session token next to a
\* header that is not sensitive, and for a response that set a cookie.
C27_Witness ==
    \E w \in Workers :
        /\ pc[w] = "done" /\ req[w].kind = "request_response_logging"
        /\ \E i, j \in DOMAIN req[w].data.request :
              /\ req[w].data.request[i] = <<H_Authorization, "session-1">>
              /\ req[w].data.request[j][1] = H_Host
        /\ Len(req[w].data.response) = 2

\* C28: every run of register_service passes its steps in the order Validate
\* Owner, Insert Owner, Flush, Validate OwnerDetail, Insert OwnerDetail,
\* Commit, stopping at the first step that fails, and a run in which no step
\* can fail (a valid payload whose email and phone are not in use) passes all
\* six and ends Committed, its two rows in the store.
C28_RegisterStepsInOrder ==
    [][\A w \in Workers :
          Answers(w, "register")
          => LET order == << "Validate Owner", "Insert Owner", "Flush",
                             "Validate OwnerDetail", "Insert OwnerDetail",
                             "Commit" >>
                 run == req'[w].steps
             IN  /\ Len(run) <= Len(order) /\ run = SubSeq(order, 1, Len(run))
                 /\ (ValidRegisterPayload(req'[w].data) /\ ~InUse(req'[w].data, owners))
                    => /\ run = order
                       /\ req'[w].exc = "none"
                       /\ Cardinality(owners') = Cardinality(owners) + 1
                       /\ Cardinality(owner_details') = Cardinality(owner_details) + 1]_vars

\* Token t was answered by a login and no Logout with t has been performed or
\* is being handled by a worker other than w.
LiveToken(t, w) ==
    /\ \E i \in DOMAIN issued : issued[i] = t
    /\ t \notin logged_out
    /\ \A v \in Workers \ {w} :
          ~(req[v].kind = "logout" /\ req[v].data = [Authorization |-> t])

\* C29: a session_id returned by a successful Login is accepted by the Guard
\* on every later request, whatever Register, Login and Logout requests with
\* other tokens came in between, until a Logout with that same session_id is
\* performed: the guard of a request presenting it lets the request through.
C29_IssuedTokenAcceptedUntilLogout ==
    [][\A w \in Workers :
          (/\ Steps(w) /\ pc[w] = "exit" /\ ctx[w] = "guard"
           /\ LiveToken(req[w].data.Authorization, w))
          => ctx'[w] = "logout"]_vars

\* C30: a Logout with token t removes at most the Session row whose
\* session_id is t.  No step of a worker handling a Logout changes an Owner
\* row, an OwnerDetail row or a Session row with another session_id, in the
\* store or in the view of the session the DELETE runs in, and the steps of
\* the Guard's check change no row at all.
C30_LogoutTouchesOnlyItsSession ==
    [][\A w \in Workers :
          (Steps(w) /\ req'[w].kind = "logout")
          => LET t == req'[w].data.Authorization
                 o == req[w].session
             IN  /\ owners' = owners /\ owner_details' = owner_details
                 /\ owner_sessions' \subseteq owner_sessions
                 /\ \A r \in owner_sessions \ owner_sessions' : r.session_id = t
                 /\ (pc[w] = "body" /\ ctx[w] = "logout")
                    => \A r \in SessView(o) :
                          r.session_id # t
                          => r \in {q \in owner_sessions' :
                                      q.session_id \notin sess_objs'[o].deleted}
                                   \cup sess_objs'[o].added
                 /\ (ctx[w] = "guard" \/ pc[w] = "idle") => store' = store
                 /\ (pc[w] = "body" /\ ctx[w] = "guard") => sess_objs' = sess_objs]_vars

\* A Logout has answered 200 while its owner holds two sessions, and both rows
\* and every Owner row are still what they were.
C30_Witness ==
    \E w \in Workers :
        /\ pc[w] = "done" /\ req[w].kind = "logout" /\ resp[w].status = 200
        /\ \E r, q \in owner_sessions :
              /\ r # q /\ r.owner_id = q.owner_id
              /\ r.session_id = req[w].data.Authorization
        /\ owners = SeedOwners
====
